---- MODULE Spec2Model ----
(***************************************************************************)
(* A model of LatexCompleter (latex_completer.py): the completion-target   *)
(* classifier, the main-directory resolution, the mtime cache, the label   *)
(* and bibliography indexers and the goto-definition lookup.               *)
(*                                                                         *)
(* Text is modelled at token level: a line is a sequence of tokens, the    *)
(* tokens "cite", "ref", "page", "label", "string" standing for those      *)
(* letters, "{", "}", ",", "@" for themselves, anything else for ordinary  *)
(* text.  A path is a sequence of components, the first one <<"/">> for an *)
(* absolute path; a component is a tuple whose last part is the file       *)
(* extension (<<"refs", ".bib">>).                                         *)
(*                                                                         *)
(* The module-level flag nobibparser is taken True (bibtexparser is not    *)
(* importable), so _FindBibEntries dispatches to _FindBibEntriesRegex.     *)
(***************************************************************************)
EXTENDS FiniteSets, Integers, Sequences, TLC

\* ------------------------------------------------------------------ bounds
\* largest modification time a file of the model gets
MaxTime == 1
\* largest value of the cache-hit counter an indexing pass may reach
MaxHits == 3
\* longest line (in tokens) of the exhaustive classifier specification
MaxLineLen == 3
\* deepest directory holding the document in the resolution specification
MaxDepth == 4

MaxTail == 3

MaxScanLen == 6

VARIABLES
    completion_target,  \* self._completion_target
    main_directory,     \* self._main_directory
    files,              \* self._files: filename -> recorded mtime
    cached_data,        \* self._cached_data: filename -> candidates
    d_cache_hits,       \* self._d_cache_hits
    goto_labels,        \* self._goto_labels: lid -> <<filename, line, col>>
    fs,                 \* the file system: path -> [mtime, content]
    last                \* the last request and what it returned or raised

vars == <<completion_target, main_directory, files, cached_data,
          d_cache_hits, goto_labels, fs, last>>

selfVars == <<completion_target, main_directory, files, cached_data,
          d_cache_hits, goto_labels>>

\* ------------------------------------------------------------- small helpers
\* Python None, as a value comparable with paths
None == << <<"None">> >>

Put(f, k, v) == [x \in DOMAIN f \cup {k} |-> IF x = k THEN v ELSE f[x]]

Min(S) == CHOOSE x \in S : \A y \in S : x <= y

Max(S) == CHOOSE x \in S : \A y \in S : x >= y

RECURSIVE Concat(_)
Concat(ss) == IF ss = <<>> THEN <<>> ELSE Head(ss) \o Concat(Tail(ss))

\* number of characters of the first n tokens of a line
RECURSIVE Width(_, _)
Width(line, n) == IF n = 0 THEN 0 ELSE Width(line, n - 1) + Len(line[n])

\* ------------------------------------------------------------------- paths
RootDir == <<"/">>

\* str.endswith on a path component
EndsWith(name, what) == Len(name) > 0 /\ name[Len(name)] = what

\* os.path.dirname
Dirname(p) ==
    IF p = <<>> THEN <<>>
    ELSE IF p = <<RootDir>> THEN p
    ELSE SubSeq(p, 1, Len(p) - 1)

\* os.path.normpath: drops "." components and resolves ".." ones
RECURSIVE NormFrom(_, _)
NormFrom(rest, acc) ==
    IF rest = <<>> THEN acc
    ELSE LET c == Head(rest) IN
         IF c = <<".">> THEN NormFrom(Tail(rest), acc)
         ELSE IF c = <<"..">>
              THEN IF acc = <<RootDir>> THEN NormFrom(Tail(rest), acc)
                   ELSE IF acc # <<>> /\ acc[Len(acc)] # <<"..">>
                        THEN NormFrom(Tail(rest), SubSeq(acc, 1, Len(acc) - 1))
                        ELSE NormFrom(Tail(rest), Append(acc, c))
              ELSE NormFrom(Tail(rest), Append(acc, c))

NormPath(p) == LET n == NormFrom(p, <<>>) IN IF n = <<>> THEN << <<".">> >> ELSE n

\* whether p is a directory: some file lies below it
IsDir(p) == \E f \in DOMAIN fs : Len(f) > Len(p) /\ SubSeq(f, 1, Len(p)) = p

\* os.listdir: the names of the entries of directory path
Listdir(path) ==
    {f[Len(path) + 1] : f \in {g \in DOMAIN fs :
        Len(g) > Len(path) /\ SubSeq(g, 1, Len(path)) = path}}

\* -------------------------------------------------------- regular expressions
\* self._cite_reg = re.compile("cite.*\{"), searched in line
CiteSearch(line) ==
    \E i \in 1..Len(line) : \E j \in (i + 1)..Len(line) :
        line[i] = "cite" /\ line[j] = "{"

\* where "ref\{|pageref\{" matches at token i of line: the index of its "{", or 0
RefAt(line, i) ==
    IF i + 1 <= Len(line) /\ line[i] = "ref" /\ line[i + 1] = "{" THEN i + 1
    ELSE IF i + 2 <= Len(line) /\ line[i] = "page" /\ line[i + 1] = "ref"
            /\ line[i + 2] = "{" THEN i + 2
    ELSE 0

\* self._ref_reg.search(line): [start, end] in tokens (end = the "{"), start = 0
\* when there is no match
RefSearch(line) ==
    LET at == {i \in 1..Len(line) : RefAt(line, i) # 0} IN
    IF at = {} THEN [start |-> 0, end |-> 0]
    ELSE [start |-> Min(at), end |-> RefAt(line, Min(at))]

\* re.search(r".*\label{(.*)}.*", line): both .* are greedy, so the match takes
\* the last "label{" that has a "}" after it, and group 1 runs to the last "}"
LabelSearch(line) ==
    LET opens == {i \in 1..Len(line) : /\ i + 1 <= Len(line)
                                        /\ line[i] = "label" /\ line[i + 1] = "{"
                                        /\ \E j \in (i + 2)..Len(line) : line[j] = "}"}
    IN  IF opens = {} THEN [found |-> FALSE, lid |-> <<>>, start |-> 0]
        ELSE LET i == Max(opens)
                 j == Max({k \in (i + 2)..Len(line) : line[k] = "}"})
             IN  [found |-> TRUE, lid |-> SubSeq(line, i + 2, j - 1),
                  start |-> Width(line, i + 1)]

\* re.search(r"@(.*){([^,]*).*", line) and re.sub(..., r"\2", line): the match
\* starts at the first "@", group 1 is greedy up to the last "{", group 2 is
\* the text after it up to the next comma; sub keeps what precedes the "@"
BibSearch(line) ==
    LET ats    == {i \in 1..Len(line) : line[i] = "@"}
        braces == {i \in 1..Len(line) : line[i] = "{"}
    IN  IF ats = {} \/ braces = {} \/ Min(ats \cup {Len(line) + 1}) > Max(braces \cup {0})
        THEN [found |-> FALSE, type |-> <<>>, key |-> <<>>]
        ELSE LET a == Min(ats)
                 b == Max(braces)
                 commas == {k \in (b + 1)..Len(line) : line[k] = ","}
                 e == IF commas = {} THEN Len(line) ELSE Min(commas) - 1
             IN  [found |-> TRUE, type |-> SubSeq(line, a + 1, b - 1),
                  key |-> SubSeq(line, 1, a - 1) \o SubSeq(line, b + 1, e)]

\* ------------------------------------------------------------ the classifier
\* Classify with the two pattern checks in the other order
ClassifyRefFirst(target, line) ==
    LET t1 == IF RefSearch(line).start # 0
              THEN (IF target = "cite" THEN "all" ELSE "label")
              ELSE target
        t2 == IF CiteSearch(line) THEN "cite" ELSE t1
    IN  [target |-> t2, use |-> CiteSearch(line) \/ RefSearch(line).start # 0]

\* Classify falling back to the idle target when no pattern matches
ClassifyResetting(target, line) ==
    LET t1 == IF CiteSearch(line) THEN "cite" ELSE "none"
        t2 == IF RefSearch(line).start # 0
              THEN (IF t1 = "cite" THEN "all" ELSE "label")
              ELSE t1
    IN  [target |-> t2, use |-> CiteSearch(line) \/ RefSearch(line).start # 0]

\* ShouldUseNowInner, lines 80-95: the new completion target and should_use
Classify(target, line) ==
    LET t1 == IF CiteSearch(line) THEN "cite" ELSE target
        t2 == IF RefSearch(line).start # 0
              THEN (IF t1 = "cite" THEN "all" ELSE "label")
              ELSE t1
    IN  [target |-> t2, use |-> CiteSearch(line) \/ RefSearch(line).start # 0]

\* ------------------------------------------------------- the main directory
\* FindMain preferring the marker nearest to the file system root
RECURSIVE FindMainTopmost(_, _)
FindMainTopmost(path, what) ==
    LET new_path == Dirname(NormPath(path))
        above    == IF new_path = path \/ new_path = <<>> THEN None
                    ELSE FindMainTopmost(new_path, what)
    IN  IF above # None THEN above
        ELSE IF \E file \in Listdir(path) : EndsWith(file, what) THEN path
        ELSE None

\* FindMain(path, ".bib"): the directory found, or None
RECURSIVE FindMain(_, _)
FindMain(path, what) ==
    IF \E file \in Listdir(path) : EndsWith(file, what) THEN path
    ELSE LET new_path == Dirname(NormPath(path)) IN
         IF new_path = path \/ new_path = <<>> THEN None
         ELSE FindMain(new_path, what)

\* _ComputeMainDirectory falling back to the document's directory
ComputeMainDirectoryToDirname(filepath) ==
    LET found == FindMain(Dirname(filepath), ".bib") IN
    IF found = None THEN Dirname(filepath) ELSE found

\* _ComputeMainDirectory: the value it leaves in self._main_directory
ComputeMainDirectory(filepath) ==
    LET found == FindMain(Dirname(filepath), ".bib") IN
    IF found = None THEN filepath ELSE found

\* the main directory resolved anew on every request
ResolvedDirectoryAlways(filepath) == ComputeMainDirectory(filepath)

\* the guard "if self._main_directory is None" of both request handlers
ResolvedDirectory(filepath) ==
    IF main_directory = None THEN ComputeMainDirectory(filepath)
    ELSE main_directory

\* ------------------------------------------------------------ the file system
DirA == <<RootDir, <<"a">> >>

DirB == <<RootDir, <<"a">>, <<"b">> >>

MainTex == Append(DirA, <<"main", ".tex">>)

DocTex == Append(DirB, <<"doc", ".tex">>)

RefsBib == Append(DirA, <<"refs", ".bib">>)

\* the order in which os.walk meets the files: a directory's own files before
\* those of its subdirectories
WalkOrder == <<MainTex, RefsBib, DocTex>>

TexFiles == {MainTex, DocTex}

BibFiles == {RefsBib}

\* lines of document files
LabelX == <<"label", "{", "x", "}">>

LabelY == <<"text", "label", "{", "y", "}">>

\* lines of bibliography files
EntryK == <<"@", "article", "{", "k", ",">>

StringS == <<"@", "string", "{", "s", "}">>

\* what the files of the model may hold
Contents(f) ==
    IF f = MainTex THEN {<<LabelX>>}
    ELSE IF f = DocTex THEN {<<>>, <<LabelY, LabelX>>}
    ELSE {<<StringS, EntryK>>}

\* the files that are rewritten during a session
Mutable == {DocTex}

\* _Walk(path, what): the files below path whose name ends with what
Walk(path, what) ==
    LET Wanted(f) == /\ f \in DOMAIN fs
                     /\ Len(f) > Len(path) /\ SubSeq(f, 1, Len(path)) = path
                     /\ EndsWith(f[Len(f)], what)
    IN  IF IsDir(path) THEN SelectSeq(WalkOrder, Wanted) ELSE <<>>

\* ------------------------------------------------------------------ the cache
\* a read that fails: the file, and the number of lines read before the error
NoFail == [file |-> None, at |-> 0]

\* _CacheDataAndSkip reusing the entry only when the file is strictly older
CacheDataAndSkipStrict(st, filename) ==
    LET last_modification == fs[filename].mtime
        miss == [skip |-> FALSE, cache |-> <<>>, err |-> "",
                 st |-> [st EXCEPT !.files = Put(@, filename, last_modification)]]
    IN  IF filename \notin DOMAIN st.files THEN miss
        ELSE IF last_modification < st.files[filename]
        THEN [skip |-> TRUE,
              cache |-> IF filename \in DOMAIN st.cached
                        THEN st.cached[filename] ELSE <<>>,
              err |-> IF filename \in DOMAIN st.cached THEN "" ELSE "KeyError",
              st |-> [st EXCEPT !.hits = @ + 1]]
        ELSE miss

\* _CacheDataAndSkip(filename) on the indexing state st: skip, the cached
\* candidates, the error raised (KeyError when self._cached_data has no entry)
CacheDataAndSkip(st, filename) ==
    LET last_modification == fs[filename].mtime
        miss == [skip |-> FALSE, cache |-> <<>>, err |-> "",
                 st |-> [st EXCEPT !.files = Put(@, filename, last_modification)]]
    IN  IF filename \notin DOMAIN st.files THEN miss
        ELSE IF last_modification <= st.files[filename]
        THEN [skip |-> TRUE,
              cache |-> IF filename \in DOMAIN st.cached
                        THEN st.cached[filename] ELSE <<>>,
              err |-> IF filename \in DOMAIN st.cached THEN "" ELSE "KeyError",
              st |-> [st EXCEPT !.hits = @ + 1]]
        ELSE miss

Entry(filename, kind, cands) == [file |-> filename, kind |-> kind, cands |-> cands]

\* the lines read from filename before a read error, all of them without one
LinesRead(filename, fail) ==
    LET n == Len(fs[filename].content) IN
    IF fail.file = filename THEN Min({fail.at, Max({n - 1, 0})}) ELSE n

\* ---------------------------------------------------------- the label indexer
\* the read loop keeping the first location recorded for an identifier
RECURSIVE ReadLabelsKeeping(_, _, _)
ReadLabelsKeeping(filename, n, labels) ==
    IF n = 0 THEN [labels |-> labels, resp |-> <<>>]
    ELSE LET prev  == ReadLabelsKeeping(filename, n - 1, labels)
             match == LabelSearch(fs[filename].content[n])
         IN  IF match.found
             THEN [labels |-> IF match.lid \in DOMAIN prev.labels THEN prev.labels
                              ELSE Put(prev.labels, match.lid,
                                       <<filename, n, match.start>>),
                   resp |-> Append(prev.resp, match.lid)]
             ELSE prev

\* _FindLabels, lines 233-240, over the first n lines of filename
RECURSIVE ReadLabels(_, _, _)
ReadLabels(filename, n, labels) ==
    IF n = 0 THEN [labels |-> labels, resp |-> <<>>]
    ELSE LET prev  == ReadLabels(filename, n - 1, labels)
             match == LabelSearch(fs[filename].content[n])
         IN  IF match.found
             THEN [labels |-> Put(prev.labels, match.lid, <<filename, n, match.start>>),
                   resp |-> Append(prev.resp, match.lid)]
             ELSE prev

\* the loop turn appending a rescan to the entry the cache already holds
FindLabelsInMerging(st, filename, fail) ==
    LET c == CacheDataAndSkip(st, filename)
        r == ReadLabels(filename, LinesRead(filename, fail), c.st.labels)
        old == IF filename \in DOMAIN c.st.cached THEN c.st.cached[filename] ELSE <<>>
    IN  IF c.err # ""
        THEN [c.st EXCEPT !.err = c.err, !.log = Append(@, Entry(filename, c.err, <<>>))]
        ELSE IF c.skip
        THEN [c.st EXCEPT !.ret = @ \o c.cache,
                          !.log = Append(@, Entry(filename, "hit", c.cache))]
        ELSE IF fail.file = filename
        THEN [c.st EXCEPT !.labels = r.labels, !.err = "IOError",
                          !.log = Append(@, Entry(filename, "IOError", <<>>))]
        ELSE [c.st EXCEPT !.labels = r.labels,
                          !.cached = Put(@, filename, old \o r.resp),
                          !.ret = @ \o r.resp,
                          !.log = Append(@, Entry(filename, "scan", r.resp))]

\* the loop turn refreshing the label index from a file served from the cache
FindLabelsInRereading(st, filename, fail) ==
    LET c == CacheDataAndSkip(st, filename)
        r == ReadLabels(filename, LinesRead(filename, fail), c.st.labels)
    IN  IF c.err # ""
        THEN [c.st EXCEPT !.err = c.err, !.log = Append(@, Entry(filename, c.err, <<>>))]
        ELSE IF c.skip
        THEN [c.st EXCEPT !.labels = r.labels,
                          !.ret = @ \o c.cache,
                          !.log = Append(@, Entry(filename, "hit", c.cache))]
        ELSE IF fail.file = filename
        THEN [c.st EXCEPT !.labels = r.labels, !.err = "IOError",
                          !.log = Append(@, Entry(filename, "IOError", <<>>))]
        ELSE [c.st EXCEPT !.labels = r.labels,
                          !.cached = Put(@, filename, r.resp),
                          !.ret = @ \o r.resp,
                          !.log = Append(@, Entry(filename, "scan", r.resp))]

\* _FindLabels, lines 228-243: one turn of the loop over the files
FindLabelsIn(st, filename, fail) ==
    LET c == CacheDataAndSkip(st, filename)
        r == ReadLabels(filename, LinesRead(filename, fail), c.st.labels)
    IN  IF c.err # ""
        THEN [c.st EXCEPT !.err = c.err, !.log = Append(@, Entry(filename, c.err, <<>>))]
        ELSE IF c.skip
        THEN [c.st EXCEPT !.ret = @ \o c.cache,
                          !.log = Append(@, Entry(filename, "hit", c.cache))]
        ELSE IF fail.file = filename
        THEN [c.st EXCEPT !.labels = r.labels, !.err = "IOError",
                          !.log = Append(@, Entry(filename, "IOError", <<>>))]
        ELSE [c.st EXCEPT !.labels = r.labels,
                          !.cached = Put(@, filename, r.resp),
                          !.ret = @ \o r.resp,
                          !.log = Append(@, Entry(filename, "scan", r.resp))]

\* --------------------------------------------------- the bibliography indexer
\* _FindBibEntriesRegex, lines 159-167, over the first n lines of filename
RECURSIVE ReadBib(_, _)
ReadBib(filename, n) ==
    IF n = 0 THEN <<>>
    ELSE LET found == BibSearch(fs[filename].content[n]) IN
         IF found.found /\ found.type # <<"string">>
         THEN Append(ReadBib(filename, n - 1), found.key)
         ELSE ReadBib(filename, n - 1)

\* _FindBibEntriesRegex, lines 154-170: one turn of the loop over the files
FindBibEntriesIn(st, filename, fail) ==
    LET c    == CacheDataAndSkip(st, filename)
        resp == ReadBib(filename, LinesRead(filename, fail))
    IN  IF c.err # ""
        THEN [c.st EXCEPT !.err = c.err, !.log = Append(@, Entry(filename, c.err, <<>>))]
        ELSE IF c.skip
        THEN [c.st EXCEPT !.ret = @ \o c.cache,
                          !.log = Append(@, Entry(filename, "hit", c.cache))]
        ELSE IF fail.file = filename
        THEN [c.st EXCEPT !.err = "IOError",
                          !.log = Append(@, Entry(filename, "IOError", <<>>))]
        ELSE [c.st EXCEPT !.cached = Put(@, filename, resp),
                          !.ret = @ \o resp,
                          !.log = Append(@, Entry(filename, "scan", resp))]

\* the loops over _Walk: an exception ends the loop
RECURSIVE FindLabelsOver(_, _, _)
FindLabelsOver(st, filenames, fail) ==
    IF filenames = <<>> \/ st.err # "" THEN st
    ELSE FindLabelsOver(FindLabelsIn(st, Head(filenames), fail), Tail(filenames), fail)

RECURSIVE FindBibEntriesOver(_, _, _)
FindBibEntriesOver(st, filenames, fail) ==
    IF filenames = <<>> \/ st.err # "" THEN st
    ELSE FindBibEntriesOver(FindBibEntriesIn(st, Head(filenames), fail),
                            Tail(filenames), fail)

\* _FindLabels and _FindBibEntries (nobibparser: _FindBibEntriesRegex)
FindLabels(st, directory, fail) == FindLabelsOver(st, Walk(directory, ".tex"), fail)

FindBibEntries(st, directory, fail) ==
    FindBibEntriesOver(st, Walk(directory, ".bib"), fail)

\* the dispatch running the bibliography indexer first for the target 'all'
CandidatesBibFirst(target, st, directory, fail) ==
    IF target = "cite" THEN FindBibEntries(st, directory, fail)
    ELSE IF target = "label" THEN FindLabels(st, directory, fail)
    ELSE IF target = "all"
         THEN FindLabels(FindBibEntries(st, directory, fail), directory, fail)
    ELSE st

\* ComputeCandidatesInner, lines 298-303: the dispatch on the completion target
Candidates(target, st, directory, fail) ==
    IF target = "cite" THEN FindBibEntries(st, directory, fail)
    ELSE IF target = "label" THEN FindLabels(st, directory, fail)
    ELSE IF target = "all"
         THEN FindBibEntries(FindLabels(st, directory, fail), directory, fail)
    ELSE st

\* ------------------------------------------------------- goto definition
\* find_end_of_command taking the last closing brace of the line
FindEndOfCommandLast(line, match) ==
    IF match.start = 0 THEN 0
    ELSE LET closing == {i \in match.start..Len(line) : line[i] = "}"} IN
         IF closing = {} THEN 0 ELSE Max(closing)

\* find_end_of_command: the index of the first "}" from the match on, or 0
FindEndOfCommand(line, match) ==
    IF match.start = 0 THEN 0
    ELSE LET closing == {i \in match.start..Len(line) : line[i] = "}"} IN
         IF closing = {} THEN 0 ELSE Min(closing)

\* _GoToDefinition reading an unclosed command up to the end of the line
GoToDefinitionToLineEnd(line) ==
    LET match == RefSearch(line)
        end_of_command == FindEndOfCommand(line, match)
        until == IF end_of_command = 0 THEN Len(line) + 1 ELSE end_of_command
        ref == SubSeq(line, match.end + 1, until - 1)
    IN  IF match.start = 0 THEN [ok |-> FALSE, ret |-> <<>>]
        ELSE IF ref \notin DOMAIN goto_labels THEN [ok |-> FALSE, ret |-> <<>>]
        ELSE [ok |-> TRUE, ret |-> goto_labels[ref]]

\* _GoToDefinition: the response, or the RuntimeError
GoToDefinition(line) ==
    LET match          == RefSearch(line)
        end_of_command == FindEndOfCommand(line, match)
        ref            == SubSeq(line, match.end + 1, end_of_command - 1)
    IN  IF end_of_command = 0 THEN [ok |-> FALSE, ret |-> <<>>]
        ELSE IF ref \notin DOMAIN goto_labels THEN [ok |-> FALSE, ret |-> <<>>]
        ELSE [ok |-> TRUE, ret |-> goto_labels[ref]]

\* ------------------------------------------------------------------ requests
Result(op, line, ok, use, ret, log) ==
    [op |-> op, line |-> line, ok |-> ok, use |-> use, ret |-> ret, log |-> log]

NoRequest == Result("none", <<>>, TRUE, FALSE, <<>>, <<>>)

\* ShouldUseNowInner(request_data)
ShouldUseNowInner(line, filepath) ==
    LET c == Classify(completion_target, line) IN
    /\ main_directory' = ResolvedDirectory(filepath)
    /\ completion_target' = c.target
    /\ last' = Result("ShouldUseNow", line, TRUE, c.use, <<>>, <<>>)
    /\ UNCHANGED <<files, cached_data, d_cache_hits, goto_labels, fs>>

\* ComputeCandidatesInner(request_data); fail is the read that fails, if any
ComputeCandidatesInner(filepath, fail) ==
    LET directory == ResolvedDirectory(filepath)
        st0 == [files |-> files, cached |-> cached_data, hits |-> d_cache_hits,
                labels |-> goto_labels, ret |-> <<>>, log |-> <<>>, err |-> ""]
        st  == Candidates(completion_target, st0, directory, fail)
    IN  /\ st.hits <= MaxHits
        /\ main_directory' = directory
        /\ files' = st.files
        /\ cached_data' = st.cached
        /\ d_cache_hits' = st.hits
        /\ goto_labels' = st.labels
        /\ last' = Result("ComputeCandidates", <<>>, st.err = "", FALSE,
                          IF st.err = "" THEN st.ret ELSE <<>>, st.log)
        /\ UNCHANGED <<completion_target, fs>>

\* the GoTo, GoToDefinition and GoToDeclaration subcommands
GoTo(line) ==
    LET r == GoToDefinition(line) IN
    /\ last' = Result("GoTo", line, r.ok, FALSE, r.ret, <<>>)
    /\ UNCHANGED <<selfVars, fs>>

\* DebugInfo / GetDetailedDiagnostic
DebugInfo ==
    /\ last' = Result("DebugInfo", <<>>, TRUE, FALSE,
                      <<main_directory, Cardinality(DOMAIN files), d_cache_hits>>, <<>>)
    /\ UNCHANGED <<selfVars, fs>>

\* ------------------------------------------------------------ the environment
\* a file is rewritten: its modification time grows
Touch(f, content) ==
    /\ f \in DOMAIN fs
    /\ fs[f].mtime < MaxTime
    /\ fs' = [fs EXCEPT ![f] = [mtime |-> @.mtime + 1, content |-> content]]
    /\ last' = NoRequest
    /\ UNCHANGED selfVars

\* a file is replaced by an older version of it
Backdate(f, content) ==
    /\ f \in DOMAIN fs
    /\ fs[f].mtime > 0
    /\ fs' = [fs EXCEPT ![f] = [mtime |-> @.mtime - 1, content |-> content]]
    /\ last' = NoRequest
    /\ UNCHANGED selfVars

\* a bibliography file appears in the tree
CreateFile(f, content) ==
    /\ f \notin DOMAIN fs
    /\ fs' = Put(fs, f, [mtime |-> 0, content |-> content])
    /\ last' = NoRequest
    /\ UNCHANGED selfVars

\* a bibliography file leaves the tree
DeleteFile(f) ==
    /\ f \in DOMAIN fs
    /\ fs' = [g \in DOMAIN fs \ {f} |-> fs[g]]
    /\ last' = NoRequest
    /\ UNCHANGED selfVars

\* ------------------------------------------------------------ specifications
\* the state __init__ leaves
InitSelf ==
    /\ completion_target = "none"
    /\ main_directory = None
    /\ files = <<>>
    /\ cached_data = <<>>
    /\ d_cache_hits = 0
    /\ goto_labels = <<>>
    /\ last = NoRequest

File(content) == [mtime |-> 0, content |-> content]

Init ==
    /\ InitSelf
    /\ \E m \in Contents(MainTex), d \in Contents(DocTex), b \in Contents(RefsBib) :
          \/ fs = (MainTex :> File(m)) @@ (DocTex :> File(d)) @@ (RefsBib :> File(b))
          \/ fs = (MainTex :> File(m)) @@ (DocTex :> File(d))

\* the lines the requests of a session carry
CiteLine == <<"cite", "{">>

RefLine == <<"ref", "{">>

BothLine == <<"cite", "{", "k", "}", "ref", "{">>

PlainLine == <<"text">>

SessionLines == {CiteLine, RefLine, BothLine, PlainLine}

GoToLines == {<<"ref", "{", "x", "}">>, <<"page", "ref", "{", "y", "}">>,
              <<"ref", "{", "x">>}

Fails == {NoFail} \cup [file : TexFiles \cup BibFiles, at : {0, 1}]

Next ==
    \/ \E line \in SessionLines, filepath \in TexFiles :
          ShouldUseNowInner(line, filepath)
    \/ \E filepath \in TexFiles, fail \in Fails :
          ComputeCandidatesInner(filepath, fail)
    \/ \E line \in GoToLines : GoTo(line)
    \/ DebugInfo
    \/ \E f \in Mutable : \E content \in Contents(f) : Touch(f, content)
    \/ \E f \in Mutable : \E content \in Contents(f) : Backdate(f, content)
    \/ \E f \in BibFiles : \E content \in Contents(f) : CreateFile(f, content)
    \/ \E f \in BibFiles : DeleteFile(f)

Spec == Init /\ [][Next]_vars

\* --- the label indexer over two document files that are both rewritten
IndexContents == {<<LabelX>>, <<LabelY, LabelX>>}

TexFails == {NoFail} \cup [file : TexFiles, at : {0, 1}]

InitIndex ==
    /\ InitSelf
    /\ \E m \in IndexContents, d \in IndexContents :
          fs = (MainTex :> File(m)) @@ (DocTex :> File(d))
               @@ (RefsBib :> File(<<StringS, EntryK>>))

NextIndex ==
    \/ ShouldUseNowInner(RefLine, DocTex)
    \/ \E fail \in TexFails : ComputeCandidatesInner(DocTex, fail)
    \/ \E f \in TexFiles : \E content \in IndexContents : Touch(f, content)

IndexSpec == InitIndex /\ [][NextIndex]_vars

\* --- navigation over lines made of a command head and at most MaxTail tokens
NavHeads == {<<>>, <<"ref">>, <<"ref", "{">>, <<"page", "ref", "{">>}

NavTails == UNION {[1..n -> {"x", "y", "}"}] : n \in 0..MaxTail}

NavLines == {head \o tail : head \in NavHeads, tail \in NavTails}

InitNav ==
    /\ InitSelf
    /\ fs = (MainTex :> File(<<LabelX>>)) @@ (DocTex :> File(<<LabelY, LabelX>>))
            @@ (RefsBib :> File(<<StringS, EntryK>>))

NextNav ==
    \/ ShouldUseNowInner(RefLine, DocTex)
    \/ ComputeCandidatesInner(DocTex, NoFail)
    \/ \E line \in NavLines : GoTo(line)

NavSpec == InitNav /\ [][NextNav]_vars

\* --- the two regex indexers over every line of at most MaxScanLen tokens,
\* the line under scan being the second of doc.tex or the only one of refs.bib
TexTokens == {"label", "{", "}", "x"}

BibTokens == {"@", "string", "{", ",", "k"}

TexLines == UNION {[1..n -> TexTokens] : n \in 0..MaxScanLen}

BibLines == UNION {[1..n -> BibTokens] : n \in 0..MaxScanLen}

InitScan ==
    /\ InitSelf
    /\ \/ \E line \in TexLines :
             fs = (MainTex :> File(<<LabelX>>)) @@ (DocTex :> File(<<PlainLine, line>>))
                  @@ (RefsBib :> File(<<StringS, EntryK>>))
       \/ \E line \in BibLines :
             fs = (MainTex :> File(<<LabelX>>)) @@ (DocTex :> File(<<PlainLine, LabelX>>))
                  @@ (RefsBib :> File(<<line>>))

\* navigation to a candidate a label pass has returned
RefTo(candidate) == <<"ref", "{">> \o candidate \o <<"}">>

NextScan ==
    \/ ShouldUseNowInner(BothLine, DocTex)
    \/ ComputeCandidatesInner(DocTex, NoFail)
    \/ \E f \in TexFiles \cap DOMAIN cached_data :
          \E i \in 1..Len(cached_data[f]) : GoTo(RefTo(cached_data[f][i]))

ScanSpec == InitScan /\ [][NextScan]_vars

\* --- the classifier alone, over every line of at most MaxLineLen tokens
Tokens == {"cite", "ref", "{", "text"}

Lines == UNION {[1..n -> Tokens] : n \in 0..MaxLineLen}

InitClassify ==
    /\ InitSelf
    /\ fs = (MainTex :> File(<<LabelX>>)) @@ (DocTex :> File(<<>>))
            @@ (RefsBib :> File(<<StringS, EntryK>>))

NextClassify == \E line \in Lines : ShouldUseNowInner(line, DocTex)

ClassifySpec == InitClassify /\ [][NextClassify]_vars

\* --- the resolution of the main directory, over every tree that is a chain of
\* at most MaxDepth directories below "/", with the document in the deepest one
\* and a bibliography file in any of them
DirNames == <<"a", "b", "c", "d", "e", "f", "g", "h">>

ChainDir(d) == <<RootDir>> \o [i \in 1..d |-> <<DirNames[i]>>]

Tree(d, marked) ==
    LET document == Append(ChainDir(d), <<"doc", ".tex">>)
        backup   == Append(ChainDir(d), <<"refs", ".bib", ".bak">>)
        bibs     == {Append(ChainDir(i), <<"refs", ".bib">>) : i \in marked}
    IN  [f \in {document, backup} \cup bibs |-> File(<<>>)]

\* the documents of the tree
Documents == {f \in DOMAIN fs : EndsWith(f[Len(f)], ".tex")}

InitRoot ==
    /\ InitSelf
    /\ \E d \in 0..MaxDepth : \E marked \in SUBSET (0..d) : fs = Tree(d, marked)

NextRoot ==
    \/ \E filepath \in Documents : ShouldUseNowInner(PlainLine, filepath)
    \/ \E filepath \in Documents : ComputeCandidatesInner(filepath, NoFail)

RootSpec == InitRoot /\ [][NextRoot]_vars

\* ======================================================================
\* The claims
\* ======================================================================
\* whether the citation pattern, the cross-reference pattern match a line
MatchesCite(line) == CiteSearch(line)

MatchesRef(line) == RefSearch(line).start # 0

\* the step is a ShouldUseNowInner call
ClassifyStep == last'.op = "ShouldUseNow"

\* C5: whatever the retained context, a Classify call on a line matching the
\* cross-reference pattern and not the citation pattern leaves context = Label,
\* and the context becomes Both only on a call whose line matches both patterns.
C5_RefOnlyGivesLabel ==
    [][ClassifyStep =>
          /\ (MatchesRef(last'.line) /\ ~MatchesCite(last'.line)
                => completion_target' = "label")
          /\ (completion_target # "all" /\ completion_target' = "all"
                => MatchesRef(last'.line) /\ MatchesCite(last'.line))]_vars

\* C6: whatever the retained context, a Classify call on a line matching the
\* citation pattern only leaves context = Cite, and a call on a line matching
\* both patterns leaves context = Both.
C6_CiteAndBoth ==
    [][ClassifyStep =>
          /\ (MatchesCite(last'.line) /\ ~MatchesRef(last'.line)
                => completion_target' = "cite")
          /\ (MatchesCite(last'.line) /\ MatchesRef(last'.line)
                => completion_target' = "all")]_vars

\* a call on a line matching both patterns has left the context Both
C6_Witness ==
    /\ last.op = "ShouldUseNow"
    /\ MatchesCite(last.line) /\ MatchesRef(last.line)
    /\ completion_target = "all"

\* C7: a Classify call on a line matching neither pattern leaves the context as
\* it was and returns activation = false; activation is true iff at least one
\* pattern matched.
C7_NoMatchKeepsContext ==
    [][ClassifyStep =>
          /\ (~MatchesCite(last'.line) /\ ~MatchesRef(last'.line)
                => completion_target' = completion_target /\ ~last'.use)
          /\ (last'.use <=> (MatchesCite(last'.line) \/ MatchesRef(last'.line)))]_vars

\* a call on a line matching neither pattern has returned false with a context
\* retained from an earlier call
C7_Witness ==
    /\ last.op = "ShouldUseNow"
    /\ ~MatchesCite(last.line) /\ ~MatchesRef(last.line)
    /\ ~last.use
    /\ completion_target = "all"

\* C9: the main directory is resolved on the first Classify or candidate request
\* and by no other request, and once resolved it never changes, whatever the
\* later requests, their document paths and the changes of the directory tree.
C9_RootMemoized ==
    [][/\ main_directory # None => main_directory' = main_directory
       /\ last'.op \in {"ShouldUseNow", "ComputeCandidates"} => main_directory' # None
       /\ last'.op \notin {"ShouldUseNow", "ComputeCandidates"}
             => main_directory' = main_directory]_vars

\* a Classify request has been served while resolving again, from any document
\* path, would give another directory than the one kept
C9_Witness ==
    /\ last.op = "ShouldUseNow"
    /\ main_directory = DirA
    /\ \A filepath \in TexFiles : ComputeMainDirectory(filepath) # main_directory

\* the ancestors of the document's directory (itself included) that hold an
\* entry whose name ends with ".bib", as lengths of path prefixes
MarkedAncestors(filepath) ==
    {k \in 1..(Len(filepath) - 1) :
        \E f \in DOMAIN fs : /\ Len(f) = k + 1
                             /\ SubSeq(f, 1, k) = SubSeq(filepath, 1, k)
                             /\ f[k + 1][Len(f[k + 1])] = ".bib"}

\* C10: when some directory from the document's directory up to "/" holds an
\* entry ending with ".bib", resolution returns the nearest one to the document.
C10_NearestMarkedAncestor ==
    \A filepath \in Documents :
        (main_directory # None /\ MarkedAncestors(filepath) # {})
            => main_directory = SubSeq(filepath, 1, Max(MarkedAncestors(filepath)))

\* the tree {a/b/c/doc.tex, a/refs.bib}, with one more marker above a, has
\* been resolved to a
C10_Witness ==
    /\ Append(ChainDir(3), <<"doc", ".tex">>) \in DOMAIN fs
    /\ MarkedAncestors(Append(ChainDir(3), <<"doc", ".tex">>)) = {1, 2}
    /\ main_directory = ChainDir(1)
    /\ last.op = "ShouldUseNow"

\* ---------------------------------------------------------- indexing passes
\* the step is a ComputeCandidatesInner call
PassStep == last'.op = "ComputeCandidates"

\* the candidates a line and a file content define, written out by hand
ExpectedOfLine(line) ==
    IF line = LabelX THEN << <<"x">> >>
    ELSE IF line = LabelY THEN << <<"y">> >>
    ELSE IF line = EntryK THEN << <<"k">> >>
    ELSE <<>>

Expected(content) == Concat([i \in 1..Len(content) |-> ExpectedOfLine(content[i])])

\* the entries a cache holds for a sequence of files, one after the other
CachedOver(cache, filenames) ==
    Concat([i \in 1..Len(filenames) |-> cache[filenames[i]]])

\* what a mapping holds for the files of a set
Over(map, filenames) == [f \in DOMAIN map \cap filenames |-> map[f]]

\* the file has a record and its modification time is not newer than recorded
Fresh(f) == f \in DOMAIN files /\ fs[f].mtime <= files[f]

\* the file has a record and its modification time is strictly newer
Stale(f) == f \in DOMAIN files /\ fs[f].mtime > files[f]

\* C1: a file scanned and stored by an earlier pass whose modification time is
\* equal to or older than the recorded one is served from the cache: the pass
\* returns for it exactly the stored list, does not read it, leaves its record
\* and entry alone, and the hit counter grows by one for each such file.
C1_CacheHit ==
    [][PassStep =>
          /\ \A i \in 1..Len(last'.log) :
                LET e == last'.log[i] IN
                (Fresh(e.file) /\ e.file \in DOMAIN cached_data)
                    => /\ e.kind = "hit"
                       /\ e.cands = cached_data[e.file]
                       /\ cached_data'[e.file] = cached_data[e.file]
                       /\ files'[e.file] = files[e.file]
          /\ d_cache_hits' = d_cache_hits
                + Cardinality({i \in 1..Len(last'.log) : Fresh(last'.log[i].file)})
          /\ last'.ok =>
                last'.ret = Concat([i \in 1..Len(last'.log) |-> last'.log[i].cands])]_vars

\* a pass has returned, served the document from the cache though the file is
\* now older than recorded and holds other content than the stored candidates
C1_Witness ==
    /\ last.op = "ComputeCandidates" /\ last.ok
    /\ \E i \in 1..Len(last.log) :
          /\ last.log[i] = Entry(DocTex, "hit", << <<"y">>, <<"x">> >>)
          /\ fs[DocTex].mtime < files[DocTex]
          /\ fs[DocTex].content = <<>>
    /\ d_cache_hits >= 1

\* C2: a file whose modification time is strictly newer than the recorded one
\* is rescanned by the pass that reaches it: the candidates returned for it are
\* those of its current content, and the recorded time and the stored entry are
\* replaced by the new scan, an empty one included; a pass that returns has
\* rescanned every such file below the main directory.
C2_CacheInvalidation ==
    [][PassStep =>
          /\ \A i \in 1..Len(last'.log) :
                LET e == last'.log[i] IN
                Stale(e.file)
                    => /\ e.kind \in {"scan", "IOError"}
                       /\ files'[e.file] = fs[e.file].mtime
                       /\ e.kind = "scan"
                            => /\ e.cands = Expected(fs[e.file].content)
                               /\ cached_data'[e.file] = Expected(fs[e.file].content)
          /\ last'.ok =>
                \A f \in DOMAIN fs :
                    (/\ Stale(f) /\ IsDir(main_directory')
                     /\ SubSeq(f, 1, Len(main_directory')) = main_directory'
                     /\ \/ completion_target \in {"label", "all"} /\ f \in TexFiles
                        \/ completion_target \in {"cite", "all"} /\ f \in BibFiles)
                        => \E i \in 1..Len(last'.log) :
                              last'.log[i] = Entry(f, "scan", Expected(fs[f].content))]_vars

\* a pass has rescanned the document, touched after a scan that had found the
\* label y in it, and has stored the empty list for it
C2_Witness ==
    /\ last.op = "ComputeCandidates" /\ last.ok
    /\ \E i \in 1..Len(last.log) : last.log[i] = Entry(DocTex, "scan", <<>>)
    /\ <<"y">> \in DOMAIN goto_labels
    /\ cached_data[DocTex] = <<>>
    /\ files[DocTex] = fs[DocTex].mtime /\ files[DocTex] > 0

\* C3: the recorded time and the stored candidates of a file are replaced
\* together: no step records a file or advances its recorded time without
\* leaving in the cache the candidates of the content the file has then.
C3_AtomicCommit ==
    [][\A f \in DOMAIN files' :
          (f \notin DOMAIN files \/ files'[f] > files[f])
              => /\ f \in DOMAIN cached_data'
                 /\ cached_data'[f] = Expected(fs[f].content)]_vars

\* C4: a read that fails is confined to its file: the pass still returns, with
\* the candidates of every other file it walks, and later passes return too.
C4_ReadFailureIsolated ==
    last.op = "ComputeCandidates"
        => LET walked == (IF completion_target \in {"label", "all"}
                          THEN Walk(main_directory, ".tex") ELSE <<>>)
                         \o (IF completion_target \in {"cite", "all"}
                             THEN Walk(main_directory, ".bib") ELSE <<>>)
               failed == {i \in 1..Len(walked) :
                             \E j \in 1..Len(last.log) :
                                 last.log[j] = Entry(walked[i], "IOError", <<>>)}
           IN  /\ last.ok
               /\ \A j \in 1..Len(last.log) : last.log[j].kind # "KeyError"
               /\ last.ret = Concat([i \in 1..Len(walked) |->
                                 IF i \in failed THEN <<>>
                                 ELSE cached_data[walked[i]]])

\* C8: the candidate computation runs the bibliography indexer alone for the
\* target cite, the label indexer alone for the target label, both for the
\* target all, returning the label candidates followed by the bibliography
\* candidates, and nothing (an empty list, no file looked at) for the target none.
C8_Dispatch ==
    [][PassStep =>
          LET tex == CachedOver(cached_data', Walk(main_directory', ".tex"))
              bib == CachedOver(cached_data', Walk(main_directory', ".bib"))
              looked == {last'.log[i].file : i \in 1..Len(last'.log)}
          IN  /\ completion_target = "cite" =>
                    /\ looked \subseteq BibFiles
                    /\ goto_labels' = goto_labels
                    /\ Over(cached_data', TexFiles) = Over(cached_data, TexFiles)
                    /\ Over(files', TexFiles) = Over(files, TexFiles)
                    /\ last'.ok => last'.ret = bib
              /\ completion_target = "label" =>
                    /\ looked \subseteq TexFiles
                    /\ Over(cached_data', BibFiles) = Over(cached_data, BibFiles)
                    /\ Over(files', BibFiles) = Over(files, BibFiles)
                    /\ last'.ok => last'.ret = tex
              /\ completion_target = "all" =>
                    (last'.ok => last'.ret = tex \o bib)
              /\ completion_target = "none" =>
                    /\ last'.ok /\ last'.ret = <<>> /\ looked = {}
                    /\ UNCHANGED <<files, cached_data, d_cache_hits, goto_labels>>]_vars

\* a pass with the target all has returned the labels of both document files
\* followed by the key of the bibliography file
C8_Witness ==
    /\ last.op = "ComputeCandidates" /\ last.ok
    /\ completion_target = "all"
    /\ last.ret = << <<"x">>, <<"y">>, <<"x">>, <<"k">> >>

\* C11: when no directory from the document's directory up to "/" holds an
\* entry ending with ".bib", resolution ends at "/" (the parent of "/" is "/"),
\* leaves the document's own path as main directory, and the request returns.
C11_FallbackToDocument ==
    \A filepath \in Documents :
        (last.op # "none" /\ MarkedAncestors(filepath) = {})
            => main_directory = filepath /\ last.ok

\* a tree of three directories without any marker has been resolved to the
\* path of its document
C11_Witness ==
    /\ last.op = "ShouldUseNow" /\ last.ok
    /\ DOMAIN fs = {Append(ChainDir(3), <<"doc", ".tex">>),
                    Append(ChainDir(3), <<"refs", ".bib", ".bak">>)}
    /\ main_directory = Append(ChainDir(3), <<"doc", ".tex">>)

\* C12: after the root has fallen back to the document's own path, a label pass
\* returns and its result holds the labels defined by every document file in
\* the directory of the open document, the open document included.
C12_FallbackFindsColocated ==
    (last.op = "ComputeCandidates" /\ completion_target = "label"
        /\ main_directory \in TexFiles)
        => /\ last.ok
           /\ \A f \in TexFiles \cap DOMAIN fs :
                 Dirname(f) = Dirname(main_directory)
                     => \A i \in 1..Len(Expected(fs[f].content)) :
                           \E j \in 1..Len(last.ret) :
                               last.ret[j] = Expected(fs[f].content)[i]

\* C13: after a pass has rescanned a document file with success, every entry
\* of the label index that points to that file names an identifier the new
\* content defines on that very line; after a scan of a file has failed part
\* way, the index holds no entry for that file that it did not hold before.
C13_LabelIndexFresh ==
    [][PassStep =>
          \A i \in 1..Len(last'.log) :
              LET e == last'.log[i]
                  content == fs[e.file].content
              IN  \A lid \in DOMAIN goto_labels' :
                      goto_labels'[lid][1] = e.file
                          => /\ e.kind = "scan" =>
                                  /\ goto_labels'[lid][2] \in 1..Len(content)
                                  /\ ExpectedOfLine(content[goto_labels'[lid][2]])
                                         = <<lid>>
                             /\ e.kind = "IOError" =>
                                  /\ lid \in DOMAIN goto_labels
                                  /\ goto_labels[lid] = goto_labels'[lid]]_vars

\* the offset at which the identifier of a line starts, written out by hand
ExpectedStart(line) == IF line = LabelX THEN 6 ELSE 10

\* the lines of a file content that define the identifier
DefinedAt(content, lid) ==
    {n \in 1..Len(content) : ExpectedOfLine(content[n]) = <<lid>>}

\* where the last definition of the identifier in the file is
LocationIn(f, lid) ==
    LET n == Max(DefinedAt(fs[f].content, lid)) IN
    <<f, n, ExpectedStart(fs[f].content[n])>>

\* the label index holds for the identifier what it held before the step
UnchangedAt(lid) ==
    /\ lid \in DOMAIN goto_labels' <=> lid \in DOMAIN goto_labels
    /\ lid \in DOMAIN goto_labels => goto_labels'[lid] = goto_labels[lid]

\* C14: after a pass the label index maps an identifier to the location in the
\* file scanned last among the files of the pass whose scan matched it (file A
\* scanned before file B leaves B's location); a pass whose scans did not match
\* it, cache hits included, leaves its entry as it was. A scan that fails part
\* way has matched the identifier or not, depending on the lines it read.
C14_LastScannedWins ==
    [][PassStep =>
          \A lid \in {<<"x">>, <<"y">>} :
              LET matched(kind) ==
                      {i \in 1..Len(last'.log) :
                          /\ last'.log[i].kind = kind
                          /\ DefinedAt(fs[last'.log[i].file].content, lid) # {}}
                  scans == matched("scan")
                  broken == matched("IOError")
                  whole == IF scans = {} THEN UnchangedAt(lid)
                           ELSE goto_labels'[lid]
                                    = LocationIn(last'.log[Max(scans)].file, lid)
              IN  IF broken = {} THEN whole
                  ELSE \/ whole
                       \/ goto_labels'[lid]
                              = LocationIn(last'.log[Max(broken)].file, lid)]_vars

\* one pass has scanned main.tex and then doc.tex, both defining x, and the
\* label index holds the location of x in doc.tex
C14_Witness ==
    /\ last.op = "ComputeCandidates" /\ last.ok
    /\ last.log = <<Entry(MainTex, "scan", << <<"x">> >>),
                    Entry(DocTex, "scan", << <<"y">>, <<"x">> >>)>>
    /\ goto_labels[<<"x">>] = <<DocTex, 2, 6>>

\* the opening brace of the first "ref{" of a line, 0 when there is none
RefOpen(line) ==
    LET opening == {i \in 2..Len(line) : line[i - 1] = "ref" /\ line[i] = "{"} IN
    IF opening = {} THEN 0 ELSE Min(opening)

\* the first closing brace after that opening brace, 0 when there is none
RefClose(line) ==
    LET closing == {j \in RefOpen(line) + 1..Len(line) : line[j] = "}"} IN
    IF RefOpen(line) = 0 \/ closing = {} THEN 0 ELSE Min(closing)

\* the text between the two
RefKey(line) == SubSeq(line, RefOpen(line) + 1, RefClose(line) - 1)

\* C15: when the line holds "ref{" followed by a closing brace and the text
\* from the end of the command up to the next closing brace is a key of the
\* label index, GoTo returns exactly the triple stored for that key.
C15_NavigationSuccess ==
    (last.op = "GoTo" /\ RefClose(last.line) # 0
        /\ RefKey(last.line) \in DOMAIN goto_labels)
        => last.ok /\ last.ret = goto_labels[RefKey(last.line)]

\* GoTo on "pageref{x}y" has returned the location of x in doc.tex
C15_Witness ==
    /\ last.op = "GoTo" /\ last.line = <<"page", "ref", "{", "x", "}", "y">>
    /\ last.ok /\ last.ret = <<DocTex, 2, 6>>

\* C16: GoTo fails in exactly three cases, no "ref{" on the line, no closing
\* brace after it, or a text between them that is no key of the label index,
\* and does so returning nothing; a GoTo, failed or not, changes no state.
C16_NavigationFailure ==
    [][last'.op = "GoTo" =>
          /\ ~last'.ok <=> \/ RefOpen(last'.line) = 0
                           \/ RefClose(last'.line) = 0
                           \/ RefKey(last'.line) \notin DOMAIN goto_labels
          /\ ~last'.ok => last'.ret = <<>>
          /\ UNCHANGED <<selfVars, fs>>]_vars

\* with x and y indexed, GoTo on "ref{xy}" has failed for want of a key xy
C16_Witness ==
    /\ last.op = "GoTo" /\ last.line = <<"ref", "{", "x", "y", "}">>
    /\ ~last.ok
    /\ DOMAIN goto_labels = {<<"x">>, <<"y">>}

\* C17: the label index changes only in a pass that runs the label indexer and
\* reads a document file; classification, navigation, bibliography passes and
\* passes made of cache hits leave it as it is. Navigation indexes nothing, so
\* it fails as long as no label pass has filled the index.
C17_WrittenOnlyByLabelScans ==
    [][/\ goto_labels' # goto_labels =>
             /\ PassStep
             /\ completion_target \in {"label", "all"}
             /\ \E i \in 1..Len(last'.log) :
                   /\ last'.log[i].file \in TexFiles
                   /\ last'.log[i].kind \in {"scan", "IOError"}
       /\ last'.op = "GoTo" =>
             /\ UNCHANGED <<files, cached_data, d_cache_hits, goto_labels>>
             /\ goto_labels = <<>> => ~last'.ok]_vars

\* GoTo on "ref{x}" has failed after a bibliography pass and before any label
\* pass, main.tex under the main directory defining x all along
C17_Witness ==
    /\ last.op = "GoTo" /\ last.line = <<"ref", "{", "x", "}">> /\ ~last.ok
    /\ goto_labels = <<>>
    /\ main_directory = DirA
    /\ RefsBib \in DOMAIN cached_data
    /\ fs[MainTex].content = <<LabelX>>

\* the label commands of a line: "label{" with a closing brace somewhere after
LabelCommands(line) ==
    {i \in 1..Len(line) - 2 :
        /\ line[i] = "label" /\ line[i + 1] = "{"
        /\ \E j \in i + 2..Len(line) : line[j] = "}"}

\* how many times the token occurs in line[from..to]
Count(line, from, to, token) == Cardinality({k \in from..to : line[k] = token})

\* the closing brace that matches the opening brace at open, 0 without one
MatchingClose(line, open) ==
    LET closing == {j \in open + 1..Len(line) :
                       /\ line[j] = "}"
                       /\ Count(line, open + 1, j - 1, "{")
                              = Count(line, open + 1, j - 1, "}")}
    IN  IF closing = {} THEN 0 ELSE Min(closing)

\* C18: a scanned line holding one label command gives one candidate, the text
\* between the opening brace of the command and its closing brace, recorded
\* with the file, the 1-based line number and the 0-based offset at which that
\* text starts, whatever braces or text follow the command on the line.
C18_LabelCapture ==
    DocTex \in DOMAIN cached_data =>
        LET line == fs[DocTex].content[2]
            i == CHOOSE i \in LabelCommands(line) : TRUE
            lid == SubSeq(line, i + 2, MatchingClose(line, i + 1) - 1)
        IN  (Cardinality(LabelCommands(line)) = 1 /\ MatchingClose(line, i + 1) # 0)
                => /\ cached_data[DocTex] = <<lid>>
                   /\ lid \in DOMAIN goto_labels
                   /\ goto_labels[lid] = <<DocTex, 2, Width(line, i + 1)>>

\* the header of a bibliography line: the first "@", the first "{" after it
\* and the first "," after that brace, 0 for what the line lacks
HeaderAt(line) ==
    LET ats == {i \in 1..Len(line) : line[i] = "@"}
        a == IF ats = {} THEN 0 ELSE Min(ats)
        braces == {i \in a + 1..Len(line) : line[i] = "{"}
        b == IF a = 0 \/ braces = {} THEN 0 ELSE Min(braces)
        commas == {i \in b + 1..Len(line) : line[i] = ","}
        c == IF b = 0 \/ commas = {} THEN 0 ELSE Min(commas)
    IN  [at |-> a, brace |-> b, comma |-> c]

\* the type of an entry line: the text from its "@" to its first "{"
TypeOf(line) == SubSeq(line, HeaderAt(line).at + 1, HeaderAt(line).brace - 1)

\* C19: a scanned bibliography line that starts an entry with a header
\* "@type{key," gives one candidate, the text between the first opening brace
\* and the first comma, when the type is not string, and none when it is,
\* whatever braces follow on the line; a file all of whose entries are of type
\* string gives no candidate.
C19_FallbackBibExtraction ==
    (RefsBib \in DOMAIN cached_data /\ Len(fs[RefsBib].content) = 1) =>
        LET line == fs[RefsBib].content[1]
            h == HeaderAt(line)
        IN  /\ (h.at = 1 /\ h.comma # 0) =>
                  cached_data[RefsBib] =
                      IF TypeOf(line) = <<"string">> THEN <<>>
                      ELSE <<SubSeq(line, h.brace + 1, h.comma - 1)>>
            /\ (h.brace # 0 /\ TypeOf(line) = <<"string">>) =>
                  cached_data[RefsBib] = <<>>

\* C20: navigation on "ref{c}" for a candidate c that a label pass has
\* returned succeeds and gives the location the label index holds for c, a
\* location in a document file.
C20_CandidateResolves ==
    (last.op = "GoTo"
        /\ \E f \in TexFiles \cap DOMAIN cached_data :
              \E i \in 1..Len(cached_data[f]) : last.line = RefTo(cached_data[f][i]))
        => /\ last.ok
           /\ last.ret[1] \in TexFiles
           /\ \E f \in TexFiles \cap DOMAIN cached_data :
                 \E i \in 1..Len(cached_data[f]) :
                     /\ last.line = RefTo(cached_data[f][i])
                     /\ last.ret = goto_labels[cached_data[f][i]]

====
